---- MODULE Spec2Model ----
(***************************************************************************)
(* tox-pyenv (src/tox_pyenv.py): the tox plugin that resolves a testenv's  *)
(* python executable with `pyenv which`, optionally after `pyenv install`, *)
(* and either falls back to tox's own lookup or raises PyenvWhichFailed.   *)
(*                                                                         *)
(* Encoding of Python values:                                              *)
(*   - a str is a sequence of one-character strings; a str literal of the  *)
(*     source that is only ever passed around whole is a one-symbol        *)
(*     sequence (Lit).  No process output is made of such a symbol.        *)
(*   - an optional value is a set: None is {}, a value x is {x}.           *)
(*   - a Popen object is the set holding its return code after             *)
(*     communicate(): `pipe` is None ({}) or {returncode}.                 *)
(***************************************************************************)
EXTENDS Integers, Sequences, FiniteSets, TLC

VARIABLES
    argv,        \* command-line flags given to tox, a subset of {"-F", "-I"}
    ini,         \* [testenv] settings of tox.ini: name -> optional BOOLEAN
    basepython,  \* envconfig.basepython
    sysfind,     \* result of py.path.local.sysfind('pyenv'): optional path
    envconfig,   \* effective per-environment configuration (after postprocess)
    pc,          \* position of the hook call
    pipe,        \* local `pipe` of tox_get_python_executable
    out,         \* local `out`
    err,         \* local `err`
    cmd,         \* local `cmd`
    result,      \* how the call ended: returned value or raised exception
    log,         \* records handed to LOG.warning / LOG.debug
    launches,    \* history: every run_pyenv call, in order
    lastWhichOut \* history: stdout captured by the most recent `which` (None if not launched)

vars == <<argv, ini, basepython, sysfind, envconfig, pc, pipe, out, err, cmd,
          result, log, launches, lastWhichOut>>

-----------------------------------------------------------------------------
(* Bounds of the model *)

MaxOutLen == 2
MaxErrLen == 2

-----------------------------------------------------------------------------
(* Python values *)

None == {}
Some(x) == {x}
Get(o) == CHOOSE x \in o : TRUE
Lit(s) == <<s>>

RECURSIVE SeqsUpTo(_, _)
SeqsUpTo(S, n) ==
    IF n = 0 THEN {<<>>}
    ELSE LET shorter == SeqsUpTo(S, n - 1)
         IN  shorter \cup {Append(s, c) : s \in {t \in shorter : Len(t) = n - 1}, c \in S}

\* characters str.strip() removes when called without arguments
Whitespace == {" ", "\t", "\n", "\r"}

OutChars == {"p", "\n"}
ErrChars == {"e"}
Stdouts == SeqsUpTo(OutChars, MaxOutLen)
InstallStdouts == {<<>>, <<"p">>, <<"p", "\n">>}
Stderrs == SeqsUpTo(ErrChars, MaxErrLen)
ExitCodes == {-9, 0, 1}
BasePythons == {"3.9.1", "python3.9"}
SysfindResults == {None, Some("/opt/pyenv/bin/pyenv")}

RECURSIVE LStrip(_)
LStrip(s) ==
    IF s # <<>> /\ Head(s) \in Whitespace THEN LStrip(Tail(s)) ELSE s

RECURSIVE RStrip(_)
RStrip(s) ==
    IF s # <<>> /\ s[Len(s)] \in Whitespace
    THEN RStrip(SubSeq(s, 1, Len(s) - 1))
    ELSE s

StripLeftOnly(s) == LStrip(s)

\* str.strip()
Strip(s) == RStrip(LStrip(s))

-----------------------------------------------------------------------------
(* Option wiring: tox_addoption, _setup_no_fallback, _setup_auto_install *)

\* argparse action='store_false': the flag stores False, its absence the default
StoreFalse(given, default) == IF given THEN FALSE ELSE default

\* config.option.tox_pyenv_fallback: '--tox-pyenv-no-fallback', '-F', default=True
option_tox_pyenv_fallback(args) == StoreFalse("-F" \in args, TRUE)

\* config.option.tox_pyenv_auto_install: '--tox-pyenv-auto-install', '-I', default=False
option_tox_pyenv_auto_install(args) == StoreFalse("-I" \in args, FALSE)

\* add_testenv_attribute(type="bool", default=False): the tox.ini value, or the default
testenv_attribute(setting) == IF setting = None THEN FALSE ELSE Get(setting)

_pyenv_fallback(cli_says, value) == cli_says \/ value

_pyenv_auto_install(cli_says, value) == cli_says \/ value

-----------------------------------------------------------------------------
(* tox_get_python_executable *)

CommandNotFound == Lit("'pyenv': command not found")
InstallFailed == Lit("install failed")
WarnNotInstalled ==
    Lit("pyenv doesn't seem to be installed, you probably don't want this plugin installed either.")
WarnCannotInstall(name) ==
    <<"pyenv doesn't seem to be able to install the requested python version ", name, ".">>
DebugFallingBack == Lit("%s failed thru tox-pyenv plugin, falling back. STDERR: %s")

\* what one Popen(...)+communicate() of `pyenv <command> <basepython>` can do:
\* raise OSError, or end with an exit code and the captured stdout and stderr
Outcomes(command) ==
    {[launched |-> FALSE, returncode |-> None, stdout |-> None, stderr |-> None]}
    \cup
    {[launched |-> TRUE, returncode |-> Some(rc), stdout |-> Some(o), stderr |-> Some(e)] :
        rc \in ExitCodes,
        o \in IF command = "which" THEN Stdouts ELSE InstallStdouts,
        e \in Stderrs}

\* the pyenv executable: sysfind's strpath, or the bare name
PyenvPath == IF sysfind = None THEN "pyenv" ELSE Get(sysfind)

\* run_pyenv(command, err_string_on_os_error, log_string_on_os_error) when the
\* process does `o`
run_pyenv(command, err_string_on_os_error, log_string_on_os_error, o) ==
    /\ cmd' = Some(<<PyenvPath, command, basepython>>)
    /\ IF o.launched
       THEN /\ pipe' = o.returncode
            /\ out' = o.stdout
            /\ err' = Get(o.stderr)
            /\ log' = log
       ELSE /\ pipe' = None
            /\ out' = None
            /\ err' = err_string_on_os_error
            /\ log' = Append(log, [level |-> "warning", msg |-> log_string_on_os_error,
                                   args |-> <<>>])
    /\ launches' = Append(launches, [command |-> command, launched |-> o.launched,
                                     returncode |-> o.returncode, stderr |-> o.stderr])
    /\ lastWhichOut' = IF command = "which" THEN o.stdout ELSE lastWhichOut

find_using_pyenv_install_err(o) == run_pyenv("which", InstallFailed, WarnNotInstalled, o)

find_using_pyenv(o) == run_pyenv("which", CommandNotFound, WarnNotInstalled, o)

install_using_pyenv_which_err(o) ==
    run_pyenv("install", CommandNotFound, WarnCannotInstall(basepython), o)

install_using_pyenv(o) ==
    run_pyenv("install", InstallFailed, WarnCannotInstall(basepython), o)

FoundAnyExit(p) == p # None

\* `pipe and pipe.poll() == 0`
Found(p) == p # None /\ Get(p) = 0

InstalledIgnoringErr(p, e) == p # None

\* `pipe and not err`
Installed(p, e) == p # None /\ e = <<>>

Returned(v) == [kind |-> "return", value |-> v]
Raised(exc, msg) == [kind |-> exc, value |-> Some(msg)]
Pending == [kind |-> "pending", value |-> None]

\* the call has reached `if not envconfig.tox_pyenv_fallback:`
AtFallbackDecision ==
    \/ pc = "found_installed?" /\ ~Found(pipe) /\ ~envconfig.tox_pyenv_auto_install
    \/ pc = "installed?" /\ ~Installed(pipe, err)
    \/ pc = "found_newly_installed?" /\ ~Found(pipe)

-----------------------------------------------------------------------------

Init ==
    /\ argv \in SUBSET {"-F", "-I"}
    /\ ini \in [{"tox_pyenv_fallback", "tox_pyenv_auto_install"} ->
                    {None, Some(TRUE), Some(FALSE)}]
    /\ basepython \in BasePythons
    /\ sysfind \in SysfindResults
    /\ envconfig = [tox_pyenv_fallback |-> FALSE, tox_pyenv_auto_install |-> FALSE]
    /\ pc = "config"
    /\ pipe = None
    /\ out = None
    /\ err = <<>>
    /\ cmd = None
    /\ result = Pending
    /\ log = <<>>
    /\ launches = <<>>
    /\ lastWhichOut = None

\* tox parses the command line and tox.ini with the options tox_addoption added
LoadConfig ==
    /\ pc = "config"
    /\ envconfig' =
         [tox_pyenv_fallback |->
              _pyenv_fallback(option_tox_pyenv_fallback(argv),
                              testenv_attribute(ini["tox_pyenv_fallback"])),
          tox_pyenv_auto_install |->
              _pyenv_auto_install(option_tox_pyenv_auto_install(argv),
                                  testenv_attribute(ini["tox_pyenv_auto_install"]))]
    /\ pc' = "call"
    /\ UNCHANGED <<argv, ini, basepython, sysfind, pipe, out, err, cmd, result, log,
                   launches, lastWhichOut>>

\* pipe, out, err, cmd = find_using_pyenv()
FindInstalled ==
    /\ pc = "call"
    /\ \E o \in Outcomes("which") : find_using_pyenv(o)
    /\ pc' = "found_installed?"
    /\ UNCHANGED <<argv, ini, basepython, sysfind, envconfig, result>>

\* if pipe and pipe.poll() == 0: return out.strip()
ReturnInstalled ==
    /\ pc = "found_installed?"
    /\ Found(pipe)
    /\ result' = Returned(Some(Strip(Get(out))))
    /\ pc' = "done"
    /\ UNCHANGED <<argv, ini, basepython, sysfind, envconfig, pipe, out, err, cmd, log,
                   launches, lastWhichOut>>

\* if envconfig.tox_pyenv_auto_install: pipe, out, err, cmd = install_using_pyenv()
TryInstall ==
    /\ pc = "found_installed?"
    /\ ~Found(pipe)
    /\ envconfig.tox_pyenv_auto_install
    /\ \E o \in Outcomes("install") : install_using_pyenv(o)
    /\ pc' = "installed?"
    /\ UNCHANGED <<argv, ini, basepython, sysfind, envconfig, result>>

\* if pipe and not err: pipe, out, err, cmd = find_using_pyenv()
FindNewlyInstalled ==
    /\ pc = "installed?"
    /\ Installed(pipe, err)
    /\ \E o \in Outcomes("which") : find_using_pyenv(o)
    /\ pc' = "found_newly_installed?"
    /\ UNCHANGED <<argv, ini, basepython, sysfind, envconfig, result>>

ReturnNewlyInstalledUnstripped ==
    /\ pc = "found_newly_installed?"
    /\ Found(pipe)
    /\ result' = Returned(out)
    /\ pc' = "done"
    /\ UNCHANGED <<argv, ini, basepython, sysfind, envconfig, pipe, out, err, cmd, log,
                   launches, lastWhichOut>>

\* if pipe and pipe.poll() == 0: return out.strip()
ReturnNewlyInstalled ==
    /\ pc = "found_newly_installed?"
    /\ Found(pipe)
    /\ result' = Returned(Some(Strip(Get(out))))
    /\ pc' = "done"
    /\ UNCHANGED <<argv, ini, basepython, sysfind, envconfig, pipe, out, err, cmd, log,
                   launches, lastWhichOut>>

RaiseDespiteFallback ==
    /\ AtFallbackDecision
    /\ result' = Raised("PyenvWhichFailed", err)
    /\ pc' = "done"
    /\ UNCHANGED <<argv, ini, basepython, sysfind, envconfig, pipe, out, err, cmd, log,
                   launches, lastWhichOut>>

\* if not envconfig.tox_pyenv_fallback: raise PyenvWhichFailed(err)
RaiseNoFallback ==
    /\ AtFallbackDecision
    /\ ~envconfig.tox_pyenv_fallback
    /\ result' = Raised("PyenvWhichFailed", err)
    /\ pc' = "done"
    /\ UNCHANGED <<argv, ini, basepython, sysfind, envconfig, pipe, out, err, cmd, log,
                   launches, lastWhichOut>>

\* LOG.debug(..., ' '.join([str(x) for x in cmd]), err); the function ends, returning None
FallBack ==
    /\ AtFallbackDecision
    /\ envconfig.tox_pyenv_fallback
    /\ log' = Append(log, [level |-> "debug", msg |-> DebugFallingBack,
                           args |-> <<Get(cmd), err>>])
    /\ result' = Returned(None)
    /\ pc' = "done"
    /\ UNCHANGED <<argv, ini, basepython, sysfind, envconfig, pipe, out, err, cmd,
                   launches, lastWhichOut>>

Next ==
    \/ LoadConfig
    \/ FindInstalled
    \/ ReturnInstalled
    \/ TryInstall
    \/ FindNewlyInstalled
    \/ ReturnNewlyInstalled
    \/ RaiseNoFallback
    \/ FallBack

Spec == Init /\ [][Next]_vars

-----------------------------------------------------------------------------
(* Vocabulary of the properties *)

Done == pc = "done"
Configured == pc # "config"
NLaunches == Len(launches)
AutoInstall == envconfig.tox_pyenv_auto_install
Fallback == envconfig.tox_pyenv_fallback

ExitedZero(l) == l.launched /\ Get(l.returncode) = 0
ExitedNonZero(l) == l.launched /\ Get(l.returncode) # 0
WhichFailed(l) == ~l.launched \/ Get(l.returncode) # 0

\* the failure reason of a `which` invocation: its captured stderr, or the
\* synthesized string when it could not be launched
ReasonOfWhich(l) == IF l.launched THEN Get(l.stderr) ELSE CommandNotFound

\* r is s without its leading and trailing whitespace
IsStripped(r, s) ==
    /\ r = <<>> \/ (r[1] \notin Whitespace /\ r[Len(r)] \notin Whitespace)
    /\ \E i \in 0..Len(s) :
          /\ i + Len(r) <= Len(s)
          /\ SubSeq(s, i + 1, i + Len(r)) = r
          /\ \A k \in 1..i : s[k] \in Whitespace
          /\ \A k \in (i + Len(r) + 1)..Len(s) : s[k] \in Whitespace

IsFound == result.kind = "return" /\ result.value # None
IsDeferred == result = Returned(None)
IsRaised(msg) == result = Raised("PyenvWhichFailed", msg)

-----------------------------------------------------------------------------
(* C1: when the first `pyenv which` is launched and exits 0, the call       *)
(* returns that invocation's stdout without its leading and trailing        *)
(* whitespace, and nothing else (no `pyenv install`) was launched.          *)
C1_FoundOnFirstWhich ==
    (Done /\ NLaunches >= 1 /\ ExitedZero(launches[1])) =>
        /\ NLaunches = 1
        /\ launches[1].command = "which"
        /\ IsFound
        /\ IsStripped(Get(result.value), Get(lastWhichOut))

C1_Witness ==
    /\ Done /\ NLaunches = 1 /\ ExitedZero(launches[1])
    /\ AutoInstall
    /\ lastWhichOut = Some(<<"p", "\n">>)
    /\ result = Returned(Some(<<"p">>))

(* C2: when `which` exits non-zero and auto-install is off, the call        *)
(* returns None if fallback is on, and raises PyenvWhichFailed with exactly *)
(* that invocation's stderr as message if fallback is off.                  *)
C2_FailureWithoutAutoInstall ==
    (Done /\ NLaunches >= 1 /\ ExitedNonZero(launches[1]) /\ ~AutoInstall) =>
        /\ NLaunches = 1
        /\ Fallback => IsDeferred
        /\ ~Fallback => IsRaised(Get(launches[1].stderr))

C2_Witness ==
    /\ Done /\ NLaunches = 1 /\ ExitedNonZero(launches[1]) /\ ~AutoInstall
    /\ ~Fallback
    /\ IsRaised(<<"e">>)

(* C3: first `which` exits non-zero, auto-install on, `install` launched    *)
(* with empty stderr, retried `which` exits 0: the call returns the retried *)
(* invocation's stripped stdout, whatever the fallback setting.             *)
C3_FoundAfterInstall ==
    (/\ Done /\ NLaunches >= 3 /\ AutoInstall
     /\ ExitedNonZero(launches[1])
     /\ launches[2].launched /\ launches[2].stderr = Some(<<>>)
     /\ ExitedZero(launches[3])) =>
        /\ IsFound
        /\ IsStripped(Get(result.value), Get(lastWhichOut))

C3_Witness ==
    /\ Done /\ NLaunches = 3 /\ AutoInstall /\ ~Fallback
    /\ ExitedNonZero(launches[1])
    /\ launches[2].launched /\ launches[2].stderr = Some(<<>>)
    /\ ExitedZero(launches[3])
    /\ lastWhichOut = Some(<<"\n", "p">>)
    /\ result = Returned(Some(<<"p">>))

\* the case of C4: first `which` exited non-zero, auto-install on, and
\* `install` failed to launch or the retried `which` failed
C4_Case ==
    /\ Done /\ NLaunches >= 2 /\ AutoInstall
    /\ ExitedNonZero(launches[1])
    /\ \/ ~launches[2].launched
       \/ NLaunches >= 3 /\ WhichFailed(launches[3])

(* C4 as stated: in that case the call ends as it would with auto-install   *)
(* off: None if fallback is on, otherwise PyenvWhichFailed whose message is *)
(* the failure reason of a `which` invocation of the call.                  *)
C4_AsIfNoAutoInstall ==
    C4_Case =>
        /\ Fallback => IsDeferred
        /\ ~Fallback =>
              \E i \in 1..NLaunches :
                  /\ launches[i].command = "which"
                  /\ IsRaised(ReasonOfWhich(launches[i]))

(* C4 amended: same outcome variant, but the raised message is the error of *)
(* the last command attempted: "install failed" when `install` could not be *)
(* launched, the retried `which`'s failure reason when the retry failed.    *)
C4_LastAttemptReason ==
    C4_Case =>
        /\ Fallback => IsDeferred
        /\ ~Fallback =>
              IsRaised(IF ~launches[2].launched
                       THEN InstallFailed
                       ELSE ReasonOfWhich(launches[3]))

C4_Witness ==
    /\ C4_Case /\ ~Fallback
    /\ NLaunches = 2 /\ ~launches[2].launched
    /\ launches[1].stderr = Some(<<"e">>)
    /\ IsRaised(InstallFailed)

(* C5: the effective tox_pyenv_auto_install is true whenever -I is given,   *)
(* and false when -I is not given and tox.ini does not set it true.         *)
C5_FlagEnablesAutoInstall ==
    Configured =>
        /\ "-I" \in argv => AutoInstall
        /\ ("-I" \notin argv /\ ini["tox_pyenv_auto_install"] # Some(TRUE)) => ~AutoInstall

(* C6: whenever -F is given the effective tox_pyenv_fallback is false,      *)
(* whatever tox.ini says, so a failed resolution never ends by deferring.   *)
C6_NoFallbackFlagWins ==
    (Configured /\ "-F" \in argv) => (~Fallback /\ ~IsDeferred)

(* C7: tox_pyenv_fallback=False in tox.ini, without -F, makes the effective *)
(* tox_pyenv_fallback false, so a failed resolution never ends by deferring.*)
C7_IniDisablesFallback ==
    (Configured /\ "-F" \notin argv /\ ini["tox_pyenv_fallback"] = Some(FALSE)) =>
        (~Fallback /\ ~IsDeferred)

\* the case of C8: the call is over and no pyenv process could be launched
C8_Case ==
    /\ Done /\ NLaunches >= 1
    /\ \A i \in 1..NLaunches : ~launches[i].launched

C8_WarningLogged ==
    /\ log # <<>>
    /\ log[1].level = "warning" /\ log[1].msg = WarnNotInstalled

(* C8 as stated: when pyenv cannot be launched at all, a warning is logged  *)
(* and the call returns None if fallback is on, otherwise raises            *)
(* PyenvWhichFailed("'pyenv': command not found"), for any auto-install.    *)
C8_CommandNotFound ==
    C8_Case =>
        /\ C8_WarningLogged
        /\ Fallback => IsDeferred
        /\ ~Fallback => IsRaised(CommandNotFound)

(* C8 amended: as stated when auto-install is off; when auto-install is on  *)
(* `install` is attempted too, and the raised message is "install failed".  *)
C8_CommandNotFoundUnlessAutoInstall ==
    C8_Case =>
        /\ C8_WarningLogged
        /\ NLaunches = IF AutoInstall THEN 2 ELSE 1
        /\ Fallback => IsDeferred
        /\ ~Fallback => IsRaised(IF AutoInstall THEN InstallFailed ELSE CommandNotFound)

C8_Witness ==
    /\ C8_Case /\ ~AutoInstall /\ ~Fallback
    /\ IsRaised(CommandNotFound)
    /\ Len(log) = 1

(* C9: a path is returned only when the most recent launch of the call was  *)
(* a `which` that exited 0, and the path is that invocation's stripped      *)
(* stdout (possibly empty); an install's output is never returned.          *)
C9_FoundOnlyFromSuccessfulWhich ==
    IsFound =>
        /\ Done /\ NLaunches >= 1
        /\ launches[NLaunches].command = "which"
        /\ ExitedZero(launches[NLaunches])
        /\ IsStripped(Get(result.value), Get(lastWhichOut))

C9_Witness ==
    /\ IsFound
    /\ lastWhichOut = Some(<<"\n", "\n">>)
    /\ result = Returned(Some(<<>>))

(* C10: launches happen only in the order which, install, which; install    *)
(* only after a failed first which with auto-install on; the second which   *)
(* only after an install that launched with empty stderr; at most three     *)
(* launches, and the call then ends in Found, Deferred or PyenvWhichFailed. *)
C10_LaunchOrder ==
    /\ NLaunches <= 3
    /\ NLaunches >= 1 => launches[1].command = "which"
    /\ NLaunches >= 2 =>
          /\ launches[2].command = "install"
          /\ WhichFailed(launches[1])
          /\ AutoInstall
    /\ NLaunches >= 3 =>
          /\ launches[3].command = "which"
          /\ launches[2].launched
          /\ launches[2].stderr = Some(<<>>)
    /\ Done => NLaunches >= 1 /\ result.kind \in {"return", "PyenvWhichFailed"}
    /\ ~Done => result = Pending /\ ENABLED Next

C10_Witness ==
    /\ Done /\ NLaunches = 3
    /\ launches[2].returncode = Some(1)
    /\ ExitedNonZero(launches[3])
    /\ IsDeferred

====
